---- MODULE Spec2Model ----
(***************************************************************************)
(* mexirun: a stack-and-tape virtual machine, its assembler and its        *)
(* obfuscator (src/src/main.rs).                                           *)
(*                                                                         *)
(* Conventions of the model                                                *)
(*  - a Vec is a sequence; index i of the Vec is index i+1 of the sequence, *)
(*    and the top of the operand stack is the LAST element;                *)
(*  - a String is the sequence of its chars, a char a string of length one; *)
(*  - a Command is a record [op, c, l]: op is the variant's name, c the    *)
(*    integer of Push(Const(c)), l the name of Push(Label(l)) / Label(l);  *)
(*  - Data is i32; usize values are held as integers, and a usize at or    *)
(*    above 2^63 (the result of casting a negative i32) is held as its     *)
(*    two's-complement signed value, so every usize comparison goes        *)
(*    through usize_lt;                                                    *)
(*  - stdout is the sequence of chars printed (each char below 256; the    *)
(*    UTF-8 encoding of a char is injective, so equal char sequences are   *)
(*    equal byte sequences).                                               *)
(***************************************************************************)
EXTENDS Integers, Sequences, FiniteSets, TLC

VARIABLES
    phase,             \* position of the run: which statement of main / generate_fuxxor is next
    debug_assertions,  \* the build: TRUE for a debug build, FALSE for a release build
    program,           \* main's `program`: [lines, labels]
    fux,               \* generate_fuxxor's local `program`
    stage,             \* which insert_dead_code call of generate_fuxxor is running (1..7)
    rounds,            \* iterations the insertion loops of generate_fuxxor may still make
    file,              \* fuxxor.mxc: [writes, lines]
    machine,           \* main's `machine`
    before,            \* the MachineState passed to the latest execute_command call
    result,            \* what the latest execute_command call returned ("none" before the first)
    stdin,             \* bytes not yet read from standard input
    stdout,            \* chars printed so far
    steps,             \* number of execute_command calls made so far in this run
    invocation,        \* 1: the run on the source file, 2: the run on fuxxor.mxc
    given,             \* the bytes supplied on standard input to every invocation
    run1,              \* what the first invocation left behind
    text,              \* the String handed to parse_program next (<<>> where the source text is not held)
    parses,            \* the Programs parse_program has returned so far
    start              \* the MachineState the run began from

vars == <<phase, debug_assertions, program, fux, stage, rounds, file, machine, before,
          result, stdin, stdout, steps, invocation, given, run1, text, parses, start>>

obfVars == <<fux, stage, rounds, file>>
runVars == <<machine, before, result, stdin, stdout, steps>>
srcVars == <<text, parses, start>>

-----------------------------------------------------------------------------
(* Data = i32 *)

MaxI32 == 2147483647
MinI32 == (-MaxI32) - 1

\* usize comparison `u < n` for a length n; a negative representative is a usize >= 2^63
usize_lt(u, n) == u >= 0 /\ u < n

\* `v as usize` for an i32 v (sign extension): the representative is unchanged
as_usize(v) == v

\* `v as u8 as char`: the low 8 bits
as_u8(v) == v % 256

\* i32 `a + b`
add_overflows(a, b) == (b > 0 /\ a > MaxI32 - b) \/ (b < 0 /\ a < MinI32 - b)

wrapping_add(a, b) ==
    IF b > 0 /\ a > MaxI32 - b THEN ((a - MaxI32) - 1) + ((b - MaxI32) - 1)
    ELSE IF b < 0 /\ a < MinI32 - b THEN ((a + MaxI32) + 1) + ((b + MaxI32) + 1)
    ELSE a + b

\* i32 `a - b`
sub_overflows(a, b) == (b < 0 /\ a > MaxI32 + b) \/ (b > 0 /\ a < MinI32 + b)

wrapping_sub(a, b) ==
    IF b < 0 /\ a > MaxI32 + b THEN ((a - MaxI32) - 1) - ((b + MaxI32) + 1)
    ELSE IF b > 0 /\ a < MinI32 + b THEN ((a + MaxI32) + 1) - ((b - MaxI32) - 1)
    ELSE a - b

\* i32 `a / b` for b # 0 and (a, b) # (MinI32, -1): truncation toward zero
trunc_div(a, b) ==
    IF b > 0 THEN (IF a >= 0 THEN a \div b ELSE (a + b - 1) \div b)
    ELSE IF b = MinI32 THEN (IF a = MinI32 THEN 1 ELSE 0)
    ELSE IF a > 0 THEN -(a \div (-b))
    ELSE IF a = MinI32 THEN ((MaxI32 - ((-b) - 1)) \div (-b)) + 1
    ELSE (-a) \div (-b)

\* i32 `a % b` for b # 0 and (a, b) # (MinI32, -1): the sign follows the dividend
trunc_rem(a, b) == a - b * trunc_div(a, b)

\* i32 `a * b`
mul_overflows(a, b) ==
    IF a = 0 \/ b = 0 THEN FALSE
    ELSE IF a > 0 /\ b > 0 THEN a > MaxI32 \div b
    ELSE IF a > 0 /\ b < 0 THEN b < trunc_div(MinI32, a)
    ELSE IF a < 0 /\ b > 0 THEN a < trunc_div(MinI32, b)
    ELSE a = MinI32 \/ b = MinI32 \/ (-a) > MaxI32 \div (-b)

\* the low 32 bits of a * b as an i32, from the 16-bit halves of a and b
\* (a = ah * 2^16 + al with 0 <= al < 2^16), no intermediate leaving 32 bits
wrapping_mul(a, b) ==
    LET al == a % 65536
        ah == a \div 65536
        bl == b % 65536
        bh == b \div 65536
        mid == (((ah * bl) % 65536) + ((al * bh) % 65536)) % 65536
        u == (al \div 256) * bl
        v == (al % 256) * bl
        w == ((u % 256) * 256) + v
        lo == w % 65536
        hi == (mid + (u \div 256) + (w \div 65536)) % 65536
    IN IF hi >= 32768 THEN ((hi - 65536) * 65536) + lo ELSE (hi * 65536) + lo

\* The value of `lhs OP rhs` on Data, or a panic: [panic |-> BOOLEAN, v |-> Data].
\* Overflow of + - * panics in a debug build and wraps in a release build;
\* division by zero and MinI32 / -1 panic in both.
Value(v) == [panic |-> FALSE, v |-> v]
Panicked == [panic |-> TRUE, v |-> 0]

arith(op, lhs, rhs, debug) ==
    CASE op = "Add" -> IF debug /\ add_overflows(lhs, rhs) THEN Panicked
                       ELSE Value(wrapping_add(lhs, rhs))
      [] op = "Sub" -> IF debug /\ sub_overflows(lhs, rhs) THEN Panicked
                       ELSE Value(wrapping_sub(lhs, rhs))
      [] op = "Mult" -> IF debug /\ mul_overflows(lhs, rhs) THEN Panicked
                        ELSE Value(wrapping_mul(lhs, rhs))
      [] op = "Div" -> IF rhs = 0 \/ (lhs = MinI32 /\ rhs = -1) THEN Panicked
                       ELSE Value(trunc_div(lhs, rhs))
      [] op = "Mod" -> IF rhs = 0 \/ (lhs = MinI32 /\ rhs = -1) THEN Panicked
                       ELSE Value(trunc_rem(lhs, rhs))
      [] op = "Eq" -> Value(IF lhs = rhs THEN 1 ELSE 0)
      [] op = "Gt" -> Value(IF lhs > rhs THEN 1 ELSE 0)
      [] op = "Lt" -> Value(IF lhs < rhs THEN 1 ELSE 0)

-----------------------------------------------------------------------------
(* enum Command, struct Program, struct MachineState *)

Cmd(op) == [op |-> op, c |-> 0, l |-> <<>>]
PushConst(c) == [op |-> "Push", c |-> c, l |-> <<>>]
PushLabel(l) == [op |-> "PushLabel", c |-> 0, l |-> l]
Label(l) == [op |-> "Label", c |-> 0, l |-> l]
Null == Cmd("Null")

BinaryOps == {"Eq", "Gt", "Lt", "Add", "Sub", "Mult", "Div", "Mod"}

\* HashMap::new()
EmptyMap == [l \in {} |-> 0]

\* labels.insert(l, p)
MapInsert(m, l, p) == [k \in DOMAIN m \cup {l} |-> IF k = l THEN p ELSE m[k]]

\* MachineState::default()
DefaultMachine ==
    [program_counter |-> 0, tape_head |-> 0, tape |-> <<>>, stack |-> <<>>,
     terminated |-> FALSE]

-----------------------------------------------------------------------------
(* Strings: str::lines, trim, to_lowercase, split_whitespace, parse::<i32>,      *)
(* format!("{}", i32)                                                            *)

\* the chars trim and split_whitespace drop inside a line
Whitespace == {" ", "\t"}

Uppercase == <<"A", "B", "C", "D", "E", "F", "G", "H", "I", "J", "K", "L", "M",
               "N", "O", "P", "Q", "R", "S", "T", "U", "V", "W", "X", "Y", "Z">>
Lowercase == <<"a", "b", "c", "d", "e", "f", "g", "h", "i", "j", "k", "l", "m",
               "n", "o", "p", "q", "r", "s", "t", "u", "v", "w", "x", "y", "z">>
DecimalDigits == <<"0", "1", "2", "3", "4", "5", "6", "7", "8", "9">>

\* the least and the greatest of a set of integers, as sets of one element; the
\* constant Spec draws from a range is its least
Least(range) == {c \in range : \A d \in range : c <= d}
Greatest(range) == {c \in range : \A d \in range : c >= d}

to_lowercase(s) ==
    [i \in 1..Len(s) |->
        IF \E k \in DOMAIN Uppercase : Uppercase[k] = s[i]
        THEN Lowercase[CHOOSE k \in DOMAIN Uppercase : Uppercase[k] = s[i]]
        ELSE s[i]]

trim(s) ==
    LET keep == {i \in 1..Len(s) : s[i] \notin Whitespace}
    IN IF keep = {} THEN <<>>
       ELSE SubSeq(s, CHOOSE i \in Least(keep) : TRUE, CHOOSE i \in Greatest(keep) : TRUE)

starts_with(s, prefix) == Len(s) >= Len(prefix) /\ SubSeq(s, 1, Len(prefix)) = prefix
ends_with(s, c) == s # <<>> /\ s[Len(s)] = c

\* str::lines(): the pieces between newlines; a final piece that is empty is no line
RECURSIVE str_lines(_)
str_lines(s) ==
    IF s = <<>> THEN <<>>
    ELSE LET nl == {i \in 1..Len(s) : s[i] = "\n"}
         IN IF nl = {} THEN <<s>>
            ELSE LET i == CHOOSE i \in Least(nl) : TRUE
                 IN <<SubSeq(s, 1, i - 1)>> \o str_lines(SubSeq(s, i + 1, Len(s)))

\* str::split_whitespace(): the maximal runs of chars that are not whitespace
RECURSIVE split_whitespace(_)
split_whitespace(s) ==
    LET t == trim(s)
        ws == {i \in 1..Len(t) : t[i] \in Whitespace}
        e == IF ws = {} THEN Len(t) ELSE (CHOOSE i \in Least(ws) : TRUE) - 1
    IN IF t = <<>> THEN <<>>
       ELSE <<SubSeq(t, 1, e)>> \o split_whitespace(SubSeq(t, e + 1, Len(t)))

\* the part of s before its first c: s.split(c).next().unwrap()
before_first(s, c) ==
    LET at == {i \in 1..Len(s) : s[i] = c}
    IN IF at = {} THEN s ELSE SubSeq(s, 1, (CHOOSE i \in Least(at) : TRUE) - 1)

digit_value(c) == (CHOOSE k \in DOMAIN DecimalDigits : DecimalDigits[k] = c) - 1
is_digit(c) == \E k \in DOMAIN DecimalDigits : DecimalDigits[k] = c

\* the digits ds read onto acc, toward MaxI32 (sign 1) or toward MinI32 (sign -1);
\* [ok |-> FALSE] when the value leaves i32
RECURSIVE read_digits(_, _, _)
read_digits(ds, acc, sign) ==
    IF ds = <<>> THEN [ok |-> TRUE, v |-> acc]
    ELSE LET d == digit_value(Head(ds))
         IN IF sign = 1
            THEN IF acc > (MaxI32 - d) \div 10 THEN [ok |-> FALSE, v |-> 0]
                 ELSE read_digits(Tail(ds), (acc * 10) + d, sign)
            ELSE IF acc < trunc_div(MinI32 + d, 10) THEN [ok |-> FALSE, v |-> 0]
                 ELSE read_digits(Tail(ds), (acc * 10) - d, sign)

\* str::parse::<i32>(): an optional sign, then one or more decimal digits, in range
parse_i32(s) ==
    LET signed == s # <<>> /\ s[1] \in {"+", "-"}
        ds == IF signed THEN Tail(s) ELSE s
    IN IF ds = <<>> \/ \E i \in 1..Len(ds) : ~is_digit(ds[i]) THEN [ok |-> FALSE, v |-> 0]
       ELSE read_digits(ds, 0, IF signed /\ s[1] = "-" THEN -1 ELSE 1)

\* the decimal digits of |v|, for v <= 0
RECURSIVE digits_of(_)
digits_of(v) ==
    LET last == <<DecimalDigits[1 - trunc_rem(v, 10)]>>
    IN IF v > -10 THEN last ELSE digits_of(trunc_div(v, 10)) \o last

\* format!("{}", v) for an i32
format_i32(v) == IF v < 0 THEN <<"-">> \o digits_of(v) ELSE digits_of(-v)

-----------------------------------------------------------------------------
(* Command::to_string, is_comment, parse_program *)

\* the variants of Command that carry nothing and are written by one word
Mnemonics ==
    [op \in {"Left", "Right", "PushT", "Pop", "Dup", "Del", "Eq", "Not", "Gt", "Lt", "Add",
             "Sub", "Mult", "Div", "Mod", "Read", "Print", "Jmp", "JmpC"} |->
        CASE op = "Left" -> <<"l", "e", "f", "t">>
          [] op = "Right" -> <<"r", "i", "g", "h", "t">>
          [] op = "PushT" -> <<"p", "u", "s", "h", "t">>
          [] op = "Pop" -> <<"p", "o", "p">>
          [] op = "Dup" -> <<"d", "u", "p">>
          [] op = "Del" -> <<"d", "e", "l">>
          [] op = "Eq" -> <<"e", "q">>
          [] op = "Not" -> <<"n", "o", "t">>
          [] op = "Gt" -> <<"g", "t">>
          [] op = "Lt" -> <<"l", "t">>
          [] op = "Add" -> <<"a", "d", "d">>
          [] op = "Sub" -> <<"s", "u", "b">>
          [] op = "Mult" -> <<"m", "u", "l", "t">>
          [] op = "Div" -> <<"d", "i", "v">>
          [] op = "Mod" -> <<"m", "o", "d">>
          [] op = "Read" -> <<"r", "e", "a", "d">>
          [] op = "Print" -> <<"p", "r", "i", "n", "t">>
          [] op = "Jmp" -> <<"j", "m", "p">>
          [] op = "JmpC" -> <<"j", "m", "p", "c">>]

PushWord == <<"p", "u", "s", "h">>

\* to_string with the colon of line 69 left out
to_string_bare_label(command) ==
    CASE command.op = "Push" -> PushWord \o <<" ">> \o format_i32(command.c)
      [] command.op = "PushLabel" -> PushWord \o <<" ">> \o command.l
      [] command.op = "Label" -> command.l
      [] command.op = "Null" -> <<>>
      [] OTHER -> Mnemonics[command.op]

\* lines 45-73
to_string(command) ==
    CASE command.op = "Push" -> PushWord \o <<" ">> \o format_i32(command.c)
      [] command.op = "PushLabel" -> PushWord \o <<" ">> \o command.l
      [] command.op = "Label" -> command.l \o <<":">>
      [] command.op = "Null" -> <<>>
      [] OTHER -> Mnemonics[command.op]

\* lines 84-86
is_comment(line) ==
    starts_with(line, <<"#">>) \/ starts_with(line, <<"/", "/">>) \/ starts_with(line, <<";">>)

\* lines 105-109
parse_push(arg) ==
    LET n == parse_i32(arg)
    IN IF n.ok THEN PushConst(n.v) ELSE PushLabel(arg)

\* the match of lines 101-127 on the first two words of a line: Some(command),
\* or None (some |-> FALSE) for the arm (_, _)
match_command(words) ==
    LET command_text == words[1]
        Some(c) == [some |-> TRUE, command |-> c]
    IN IF \E op \in DOMAIN Mnemonics : Mnemonics[op] = command_text
       THEN Some(Cmd(CHOOSE op \in DOMAIN Mnemonics : Mnemonics[op] = command_text))
       ELSE IF command_text = PushWord /\ Len(words) >= 2 THEN Some(parse_push(words[2]))
       ELSE [some |-> FALSE, command |-> Null]

\* parse_one with the label recorded one line late (lines.len() read after the push)
parse_one_late_label(prog, raw) ==
    LET line == to_lowercase(trim(raw))
        words == split_whitespace(line)
        push(c) == [panic |-> FALSE,
                    program |-> [prog.program EXCEPT !.lines = Append(@, c)]]
    IN IF prog.panic THEN prog
       ELSE IF is_comment(line) \/ line = <<>> THEN push(Null)
       ELSE IF words = <<>> THEN push(Null)
       ELSE IF match_command(words).some THEN push(match_command(words).command)
       ELSE IF ~ends_with(words[1], ":") THEN [prog EXCEPT !.panic = TRUE]
       ELSE LET label == before_first(words[1], ":")
            IN [panic |-> FALSE,
                program |-> [lines |-> Append(prog.program.lines, Label(label)),
                             labels |-> MapInsert(prog.program.labels, label,
                                                  Len(prog.program.lines) + 1)]]

\* lines 94-142, the body of the loop for one line of the text; prog is
\* [panic, program], panic set once the assert of line 129 has failed
parse_one(prog, raw) ==
    LET line == to_lowercase(trim(raw))
        words == split_whitespace(line)
        push(c) == [panic |-> FALSE,
                    program |-> [prog.program EXCEPT !.lines = Append(@, c)]]
    IN IF prog.panic THEN prog
       ELSE IF is_comment(line) \/ line = <<>> THEN push(Null)
       ELSE IF words = <<>> THEN push(Null)
       ELSE IF match_command(words).some THEN push(match_command(words).command)
       ELSE IF ~ends_with(words[1], ":") THEN [prog EXCEPT !.panic = TRUE]
       ELSE LET label == before_first(words[1], ":")
            IN [panic |-> FALSE,
                program |-> [lines |-> Append(prog.program.lines, Label(label)),
                             labels |-> MapInsert(prog.program.labels, label,
                                                  Len(prog.program.lines))]]

RECURSIVE parse_lines(_, _)
parse_lines(prog, ls) ==
    IF ls = <<>> THEN prog ELSE parse_lines(parse_one(prog, Head(ls)), Tail(ls))

\* lines 88-145
parse_program(prog_string) ==
    parse_lines([panic |-> FALSE, program |-> [lines |-> <<>>, labels |-> EmptyMap]],
                str_lines(prog_string))

-----------------------------------------------------------------------------
(* execute_command *)

\* What one call returns and does: res is "Ok", the ExecutionError returned, or
\* "Panic" when the call aborts the process; machine is the returned state (the
\* argument itself when res # "Ok"); out are the chars printed, nread the bytes read.
Return(res, m, out, nread) == [res |-> res, machine |-> m, out |-> out, nread |-> nread]

Pop1(s) == SubSeq(s, 1, Len(s) - 1)
Pop2(s) == SubSeq(s, 1, Len(s) - 2)
Top(s) == s[Len(s)]
Second(s) == s[Len(s) - 1]

\* Vec::resize_with(n, Data::default) for n > Len(tape)
resize_with(tape, n) == tape \o [i \in 1..(n - Len(tape)) |-> 0]

\* PostStep with `>` for the `>=` of line 259
PostStep_past_end(prog, m) ==
    IF m.program_counter < 0 \/ m.program_counter > Len(prog.lines)
    THEN [m EXCEPT !.terminated = TRUE]
    ELSE m

\* lines 259-262
PostStep(prog, m) ==
    IF ~usize_lt(m.program_counter, Len(prog.lines))
    THEN [m EXCEPT !.terminated = TRUE]
    ELSE m

\* Ok(machine) of line 262, after an arm that neither prints nor reads
Ok(prog, m) == Return("Ok", PostStep(prog, m), <<>>, 0)

\* an Err(e) leaving through `?`, or a panic: the caller's state is what it passed
Err(e, m0) == Return(e, m0, <<>>, 0)

(* The arms of the match of lines 174-258.  m0 is the state passed to            *)
(* execute_command, m the state whose terminated flag is cleared and whose       *)
(* program counter is already advanced (line 173).                               *)

\* op_left with saturating_sub for the checked_sub of line 176
op_left_saturating(prog, m0, m) ==
    Ok(prog, [m EXCEPT !.tape_head = IF @ = 0 THEN 0 ELSE @ - 1])

\* lines 175-177
op_left(prog, m0, m) ==
    IF m.tape_head = 0 THEN Err("TapeHeadUnderflow", m0)
    ELSE Ok(prog, [m EXCEPT !.tape_head = @ - 1])

\* line 178
op_right(prog, m0, m) == Ok(prog, [m EXCEPT !.tape_head = @ + 1])

\* op_pusht with a cell past the end of the tape read as 0
op_pusht_zero_default(prog, m0, m) ==
    Ok(prog, [m EXCEPT !.stack = Append(m.stack, IF m.tape_head >= Len(m.tape) THEN 0
                                                  ELSE m.tape[m.tape_head + 1])])

\* line 179: indexing the Vec past its length panics
op_pusht(prog, m0, m) ==
    IF m.tape_head >= Len(m.tape) THEN Err("Panic", m0)
    ELSE Ok(prog, [m EXCEPT !.stack = Append(m.stack, m.tape[m.tape_head + 1])])

\* line 180
op_push_const(prog, c, m0, m) == Ok(prog, [m EXCEPT !.stack = Append(m.stack, c)])

\* lines 181-183
op_push_label(prog, label, m0, m) ==
    IF label \in DOMAIN prog.labels
    THEN Ok(prog, [m EXCEPT !.stack = Append(m.stack, prog.labels[label])])
    ELSE Err("InvalidLabel", m0)

\* op_pop with `>` for the `>=` of line 185: at head = length the tape is not
\* grown and the assignment of line 190 indexes past its end
op_pop_late_resize(prog, m0, m) ==
    LET grown == IF m.tape_head > Len(m.tape)
                 THEN resize_with(m.tape, m.tape_head + 1)
                 ELSE m.tape
    IN IF m.stack = <<>> THEN Err("StackUnderflow", m0)
       ELSE IF m.tape_head >= Len(grown) THEN Err("Panic", m0)
       ELSE Ok(prog, [m EXCEPT !.tape = [grown EXCEPT ![m.tape_head + 1] = Top(m.stack)],
                               !.stack = Pop1(m.stack)])

\* lines 184-191: the tape is resized first; the right-hand side (the pop and its
\* `?`) is evaluated before the indexed place is assigned
op_pop(prog, m0, m) ==
    LET grown == IF m.tape_head >= Len(m.tape)
                 THEN resize_with(m.tape, m.tape_head + 1)
                 ELSE m.tape
    IN IF m.stack = <<>> THEN Err("StackUnderflow", m0)
       ELSE Ok(prog, [m EXCEPT !.tape = [grown EXCEPT ![m.tape_head + 1] = Top(m.stack)],
                               !.stack = Pop1(m.stack)])

\* lines 192-194
op_dup(prog, m0, m) ==
    IF m.stack = <<>> THEN Err("StackUnderflow", m0)
    ELSE Ok(prog, [m EXCEPT !.stack = Append(m.stack, Top(m.stack))])

\* op_del without the ok_or(StackUnderflow)? of line 195
op_del_unchecked(prog, m0, m) ==
    Ok(prog, [m EXCEPT !.stack = IF m.stack = <<>> THEN <<>> ELSE Pop1(m.stack)])

\* line 195
op_del(prog, m0, m) ==
    IF m.stack = <<>> THEN Err("StackUnderflow", m0)
    ELSE Ok(prog, [m EXCEPT !.stack = Pop1(m.stack)])

\* lines 201-204
op_not(prog, m0, m) ==
    IF m.stack = <<>> THEN Err("StackUnderflow", m0)
    ELSE Ok(prog, [m EXCEPT !.stack = Append(Pop1(m.stack), IF Top(m.stack) = 0 THEN 1 ELSE 0)])

\* binary_operands with the two pops in the other order
binary_operands_swapped(s) == [lhs |-> Second(s), rhs |-> Top(s)]

\* `stack.pop()? OP stack.pop()?`: operands are evaluated left to right, so the
\* first value popped is the left operand and the second the right operand
binary_operands(s) == [lhs |-> Top(s), rhs |-> Second(s)]

\* lines 196-200 and 205-239: both pops come before the operation
op_binary(prog, op, m0, m, debug) ==
    IF Len(m.stack) < 2 THEN Err("StackUnderflow", m0)
    ELSE LET o == binary_operands(m.stack)
             r == arith(op, o.lhs, o.rhs, debug)
         IN IF r.panic THEN Err("Panic", m0)
            ELSE Ok(prog, [m EXCEPT !.stack = Append(Pop2(m.stack), r.v)])

\* line 240: the unwrap panics at end of input
op_read(prog, m0, m, input) ==
    IF input = <<>> THEN Err("Panic", m0)
    ELSE Return("Ok", PostStep(prog, [m EXCEPT !.stack = Append(m.stack, Head(input))]),
                <<>>, 1)

\* lines 241-247
op_print(prog, m0, m) ==
    IF m.stack = <<>> THEN Err("StackUnderflow", m0)
    ELSE Return("Ok", PostStep(prog, [m EXCEPT !.stack = Pop1(m.stack)]),
                <<as_u8(Top(m.stack))>>, 0)

\* op_jmp with the popped value added to the program counter
op_jmp_relative(prog, m0, m) ==
    IF m.stack = <<>> THEN Err("StackUnderflow", m0)
    ELSE Ok(prog, [m EXCEPT !.program_counter = @ + as_usize(Top(m.stack)),
                            !.stack = Pop1(m.stack)])

\* lines 248-250
op_jmp(prog, m0, m) ==
    IF m.stack = <<>> THEN Err("StackUnderflow", m0)
    ELSE Ok(prog, [m EXCEPT !.program_counter = as_usize(Top(m.stack)),
                            !.stack = Pop1(m.stack)])

\* jmpc_operands with the condition popped first
jmpc_operands_swapped(s) == [addr |-> Second(s), cond |-> Top(s)]

\* lines 252-253: the address is popped first, the condition second
jmpc_operands(s) == [addr |-> Top(s), cond |-> Second(s)]

\* lines 251-256
op_jmpc(prog, m0, m) ==
    IF Len(m.stack) < 2 THEN Err("StackUnderflow", m0)
    ELSE LET o == jmpc_operands(m.stack)
         IN IF o.cond # 0
            THEN Ok(prog, [m EXCEPT !.program_counter = as_usize(o.addr),
                                    !.stack = Pop2(m.stack)])
            ELSE Ok(prog, [m EXCEPT !.stack = Pop2(m.stack)])

\* line 257
op_null(prog, m0, m) == Ok(prog, m)

\* lines 161-172: what happens before the command is fetched
Entry(prog, m0) ==
    IF m0.terminated /\ ~usize_lt(m0.program_counter, Len(prog.lines)) THEN "Terminated"
    ELSE IF ~usize_lt(m0.program_counter, Len(prog.lines)) THEN "InvalidLine"
    ELSE "fetch"

\* Fetched without the assignment of line 163
Fetched_keeps_flag(m0) == [m0 EXCEPT !.program_counter = @ + 1]

\* lines 163 and 173
Fetched(m0) == [m0 EXCEPT !.terminated = FALSE, !.program_counter = @ + 1]

execute_command(prog, m0, input, debug) ==
    IF Entry(prog, m0) # "fetch" THEN Err(Entry(prog, m0), m0)
    ELSE LET command == prog.lines[m0.program_counter + 1]
             op == command.op
             m == Fetched(m0)
         IN CASE op = "Left" -> op_left(prog, m0, m)
              [] op = "Right" -> op_right(prog, m0, m)
              [] op = "PushT" -> op_pusht(prog, m0, m)
              [] op = "Push" -> op_push_const(prog, command.c, m0, m)
              [] op = "PushLabel" -> op_push_label(prog, command.l, m0, m)
              [] op = "Pop" -> op_pop(prog, m0, m)
              [] op = "Dup" -> op_dup(prog, m0, m)
              [] op = "Del" -> op_del(prog, m0, m)
              [] op = "Not" -> op_not(prog, m0, m)
              [] op \in BinaryOps -> op_binary(prog, op, m0, m, debug)
              [] op = "Read" -> op_read(prog, m0, m, input)
              [] op = "Print" -> op_print(prog, m0, m)
              [] op = "Jmp" -> op_jmp(prog, m0, m)
              [] op = "JmpC" -> op_jmpc(prog, m0, m)
              [] op \in {"Null", "Label"} -> op_null(prog, m0, m)

-----------------------------------------------------------------------------
(* Bounds of the model *)

\* longest source program of Spec, in lines
MaxProgLen == 3
\* insert_dead_code iterations over all seven calls of one generate_fuxxor run
MaxInsert == 1
\* rounds of the padding loop (line 286)
PadRounds == 1
\* insertions in one round of the padding loop (line 288 draws 1..3)
MaxPad == 1
\* execute_command calls in one run of the driver loop
MaxSteps == 12
\* lines of a source text of SpecParse
MaxTextLines == 3
\* lines of one rendering on which a gen_ratio of lines 325-337 comes out true
MaxNoisyLines == 1
\* calls of parse_program in one behaviour of SpecParse
MaxParses == 2

-----------------------------------------------------------------------------
(* generate_fuxxor and insert_dead_code *)

\* rng.gen_range(lo..hi)
gen_range(lo, hi) == lo..(hi - 1)

\* Vec::insert(index, command)
InsertAt(lines, index, command) ==
    SubSeq(lines, 1, index) \o <<command>> \o SubSeq(lines, index + 1, Len(lines))

\* lines 271-274: the commands of dead_code go in at index, index+1, ...
Splice(lines, index, dead_code) ==
    SubSeq(lines, 1, index) \o dead_code \o SubSeq(lines, index + 1, Len(lines))

\* program.lines.retain(|command| *command != Command::Null)
RECURSIVE retain_non_null(_)
retain_non_null(lines) ==
    IF lines = <<>> THEN <<>>
    ELSE IF Head(lines) = Null THEN retain_non_null(Tail(lines))
    ELSE <<Head(lines)>> \o retain_non_null(Tail(lines))

\* every result of k runs of line 289 on lines (lines # <<>>)
RECURSIVE PadResults(_, _)
PadResults(lines, k) ==
    IF k = 0 THEN {lines}
    ELSE UNION {PadResults(InsertAt(lines, i, Null), k - 1) : i \in gen_range(0, Len(lines))}

\* dead_code_gen with the first constant of line 300 drawn from -3..10 as well
dead_code_gen_any_divisor(n, A, B) ==
    CASE n = 1 -> {<<PushConst(a), Cmd("Del")>> : a \in A}
      [] n = 2 -> {<<PushConst(a), PushConst(b), Cmd("Add"), Cmd("Del")>> : a \in A, b \in A}
      [] n = 3 -> {<<PushConst(a), PushConst(b), Cmd("Sub"), Cmd("Del")>> : a \in A, b \in A}
      [] n = 4 -> {<<PushConst(a), Cmd("Dup"), Cmd("Add"), Cmd("Del")>> : a \in A}
      [] n = 5 -> {<<PushConst(a), PushConst(b), Cmd("Div"), PushConst(c), Cmd("Mult"), Cmd("Del")>> :
                     a \in A, b \in B, c \in B}
      [] n = 6 -> {<<PushConst(a), Cmd("Dup"), Cmd("Mult"), PushConst(c), Cmd("Mult"), Cmd("Del")>> :
                     a \in A, c \in B}
      [] n = 7 -> {<<Null>>}

\* the closures of lines 296-302, as the set of Vecs each can return when its
\* constants are drawn from A (gen_range(-3..10)) and B (gen_range(3..10))
dead_code_gen(n, A, B) ==
    CASE n = 1 -> {<<PushConst(a), Cmd("Del")>> : a \in A}
      [] n = 2 -> {<<PushConst(a), PushConst(b), Cmd("Add"), Cmd("Del")>> : a \in A, b \in A}
      [] n = 3 -> {<<PushConst(a), PushConst(b), Cmd("Sub"), Cmd("Del")>> : a \in A, b \in A}
      [] n = 4 -> {<<PushConst(a), Cmd("Dup"), Cmd("Add"), Cmd("Del")>> : a \in A}
      [] n = 5 -> {<<PushConst(a), PushConst(b), Cmd("Div"), PushConst(c), Cmd("Mult"), Cmd("Del")>> :
                     a \in B, b \in B, c \in B}
      [] n = 6 -> {<<PushConst(a), Cmd("Dup"), Cmd("Mult"), PushConst(c), Cmd("Mult"), Cmd("Del")>> :
                     a \in A, c \in B}
      [] n = 7 -> {<<Null>>}

LastStage == 7

\* scan_labels with an entry that is there kept (or_insert for the insert of line 308)
RECURSIVE scan_labels_first_wins(_, _, _)
scan_labels_first_wins(lines, line, labels) ==
    IF line >= Len(lines) THEN labels
    ELSE scan_labels_first_wins(lines, line + 1,
                     IF lines[line + 1].op = "Label" /\ lines[line + 1].l \notin DOMAIN labels
                     THEN MapInsert(labels, lines[line + 1].l, line)
                     ELSE labels)

\* lines 305-310: the label table by a scan of the lines, a later Label overwriting
RECURSIVE scan_labels(_, _, _)
scan_labels(lines, line, labels) ==
    IF line >= Len(lines) THEN labels
    ELSE scan_labels(lines, line + 1,
                     IF lines[line + 1].op = "Label"
                     THEN MapInsert(labels, lines[line + 1].l, line)
                     ELSE labels)

\* line 284
Retain ==
    /\ phase = "retain"
    /\ fux' = [fux EXCEPT !.lines = retain_non_null(fux.lines)]
    /\ phase' = "pad"
    /\ UNCHANGED <<debug_assertions, program, stage, rounds, file, invocation, given, run1>>
    /\ UNCHANGED runVars
    /\ UNCHANGED srcVars

\* lines 286-291, one round of the outer loop; gen_range(0..0) panics
PadRound ==
    /\ phase = "pad"
    /\ rounds > 0
    /\ IF fux.lines = <<>>
       THEN /\ phase' = "aborted"
            /\ UNCHANGED <<fux, rounds>>
       ELSE /\ \E k \in gen_range(1, 4) \cap (1..MaxPad) : \E ls \in PadResults(fux.lines, k) :
                  fux' = [fux EXCEPT !.lines = ls]
            /\ rounds' = IF rounds = 1 THEN MaxInsert ELSE rounds - 1
            /\ phase' = IF rounds = 1 THEN "dead" ELSE "pad"
    /\ UNCHANGED <<debug_assertions, program, stage, file, invocation, given, run1>>
    /\ UNCHANGED runVars
    /\ UNCHANGED srcVars

\* insert_dead_code, one iteration of the loop of line 268
InsertDeadCode ==
    /\ phase = "dead"
    /\ rounds > 0
    /\ \E index \in gen_range(0, Len(fux.lines)) :
         \E dead_code \in dead_code_gen(stage, Least(gen_range(-3, 10)), Least(gen_range(3, 10))) :
            fux' = [fux EXCEPT !.lines = Splice(fux.lines, index, dead_code)]
    /\ rounds' = rounds - 1
    /\ UNCHANGED <<phase, debug_assertions, program, stage, file, invocation, given, run1>>
    /\ UNCHANGED runVars
    /\ UNCHANGED srcVars

\* the loop of line 268 ends and insert_dead_code returns
ReturnDeadCode ==
    /\ phase = "dead"
    /\ IF stage < LastStage
       THEN stage' = stage + 1 /\ phase' = phase
       ELSE stage' = stage /\ phase' = "labels"
    /\ UNCHANGED <<debug_assertions, program, fux, rounds, file, invocation, given, run1>>
    /\ UNCHANGED runVars
    /\ UNCHANGED srcVars

\* UpdateLabels without lines 305-310: the table parse_program made is kept
UpdateLabels_stale ==
    /\ phase = "labels"
    /\ fux' = fux
    /\ phase' = "substitute"
    /\ UNCHANGED <<debug_assertions, program, stage, rounds, file, invocation, given, run1>>
    /\ UNCHANGED runVars
    /\ UNCHANGED srcVars

\* lines 304-310
UpdateLabels ==
    /\ phase = "labels"
    /\ fux' = [fux EXCEPT !.labels = scan_labels(fux.lines, 0, EmptyMap)]
    /\ phase' = "substitute"
    /\ UNCHANGED <<debug_assertions, program, stage, rounds, file, invocation, given, run1>>
    /\ UNCHANGED runVars
    /\ UNCHANGED srcVars

\* lines 313-317; the unwrap of line 315 panics on a name the table lacks
SubstituteLabels ==
    /\ phase = "substitute"
    /\ IF \E i \in 1..Len(fux.lines) :
              fux.lines[i].op = "PushLabel" /\ fux.lines[i].l \notin DOMAIN fux.labels
       THEN phase' = "aborted" /\ UNCHANGED fux
       ELSE /\ fux' = [fux EXCEPT !.lines =
                          [i \in 1..Len(fux.lines) |->
                              IF fux.lines[i].op = "PushLabel"
                              THEN PushConst(fux.labels[fux.lines[i].l])
                              ELSE fux.lines[i]]]
            /\ phase' = "write"
    /\ UNCHANGED <<debug_assertions, program, stage, rounds, file, invocation, given, run1>>
    /\ UNCHANGED runVars
    /\ UNCHANGED srcVars

\* WriteFile without lines 341-343: nothing is written
WriteFile_unwritten ==
    /\ phase = "write"
    /\ LET erased == [i \in 1..Len(fux.lines) |->
                        IF fux.lines[i].op = "Label" THEN Null ELSE fux.lines[i]]
       IN fux' = [fux EXCEPT !.lines = erased]
    /\ phase' = "exec"
    /\ UNCHANGED <<debug_assertions, program, stage, rounds, file, invocation, given, run1>>
    /\ UNCHANGED runVars
    /\ UNCHANGED srcVars

\* lines 318-343: Labels become Null, the lines are rendered and written; the
\* file is held as the commands its lines parse to; main goes on to line 373
WriteFile ==
    /\ phase = "write"
    /\ LET erased == [i \in 1..Len(fux.lines) |->
                        IF fux.lines[i].op = "Label" THEN Null ELSE fux.lines[i]]
       IN /\ fux' = [fux EXCEPT !.lines = erased]
          /\ file' = [writes |-> file.writes + 1, lines |-> erased]
    /\ phase' = "exec"
    /\ UNCHANGED <<debug_assertions, program, stage, rounds, invocation, given, run1>>
    /\ UNCHANGED runVars
    /\ UNCHANGED srcVars

-----------------------------------------------------------------------------
(* main *)

\* one call of execute_command on the current machine, as execute_or_crash makes it
Call ==
    LET r == execute_command(program, machine, stdin, debug_assertions)
    IN /\ before' = machine
       /\ result' = r.res
       /\ machine' = r.machine
       /\ stdout' = stdout \o r.out
       /\ stdin' = SubSeq(stdin, r.nread + 1, Len(stdin))
       /\ steps' = steps + 1

\* DriverStep without the test of line 374: the loop calls on after termination
DriverStep_polls_on ==
    /\ phase = "exec"
    /\ steps < MaxSteps
    /\ Call
    /\ phase' = IF result' = "Ok" THEN "exec" ELSE "crashed"
    /\ UNCHANGED <<debug_assertions, program, invocation, given, run1>>
    /\ UNCHANGED obfVars
    /\ UNCHANGED srcVars

\* lines 374-376: one iteration of the driver loop; an Err or a panic aborts the process
DriverStep ==
    /\ phase = "exec"
    /\ ~machine.terminated
    /\ steps < MaxSteps
    /\ Call
    /\ phase' = IF result' = "Ok" THEN "exec" ELSE "crashed"
    /\ UNCHANGED <<debug_assertions, program, invocation, given, run1>>
    /\ UNCHANGED obfVars
    /\ UNCHANGED srcVars

\* line 377: the loop has ended
Exit ==
    /\ phase = "exec"
    /\ machine.terminated
    /\ phase' = "done"
    /\ UNCHANGED <<debug_assertions, program, invocation, given, run1>>
    /\ UNCHANGED obfVars
    /\ UNCHANGED srcVars
    /\ UNCHANGED runVars

\* the program written to fuxxor.mxc is run in its turn on the same input:
\* lines 373-376 on the parsed file
RunObfuscated ==
    /\ invocation = 1
    /\ phase \in {"done", "crashed"}
    /\ file.writes > 0
    /\ run1' = [phase |-> phase, result |-> result, stdout |-> stdout,
                tape |-> machine.tape, lines |-> program.lines]
    /\ invocation' = 2
    /\ program' = [lines |-> file.lines, labels |-> scan_labels(file.lines, 0, EmptyMap)]
    /\ machine' = DefaultMachine
    /\ before' = DefaultMachine
    /\ result' = "none"
    /\ stdin' = given
    /\ stdout' = <<>>
    /\ steps' = 0
    /\ phase' = "exec"
    /\ UNCHANGED <<debug_assertions, given>>
    /\ UNCHANGED obfVars
    /\ UNCHANGED srcVars

\* the commands of the source programs of Spec
MainCommands ==
    {Null, PushConst(-1), PushConst(0), PushConst(1), PushConst(2),
     Cmd("Jmp"), Cmd("JmpC"), Cmd("Print"), Cmd("Pop"),
     Label(<<"a">>), PushLabel(<<"a">>)}

SeqsUpTo(S, n) == UNION {[1..k -> S] : k \in 0..n}

\* main up to line 373, for a source program of ProgramLines: the program is
\* parsed (its label table is the scan of its lines), generate_fuxxor has its clone
InitWith(ProgramLines) ==
    /\ debug_assertions \in BOOLEAN
    /\ \E lines \in ProgramLines :
          program = [lines |-> lines, labels |-> scan_labels(lines, 0, EmptyMap)]
    /\ fux = program
    /\ phase = "retain"
    /\ stage = 1
    /\ rounds = PadRounds
    /\ file = [writes |-> 0, lines |-> <<>>]
    /\ machine = DefaultMachine
    /\ before = DefaultMachine
    /\ result = "none"
    /\ given = <<>>
    /\ stdin = given
    /\ stdout = <<>>
    /\ steps = 0
    /\ invocation = 1
    /\ run1 = [phase |-> "none", result |-> "none", stdout |-> <<>>, tape |-> <<>>,
               lines |-> <<>>]
    /\ text = <<>>
    /\ parses = <<>>
    /\ start = machine

Init == InitWith(SeqsUpTo(MainCommands, MaxProgLen))

\* Source programs that carry a value across a jump to a numeric address take
\* four lines: the value, the address, the jump and the user of the value.
JumpCommands ==
    {Null, PushConst(1), PushConst(MaxProgLen + 1), Cmd("Jmp"), Cmd("Print")}

InitJump == InitWith([1..(MaxProgLen + 1) -> JumpCommands])

-----------------------------------------------------------------------------
(* parse_program on a text, the rendering of lines 320-340 and the parse of it *)

\* the gen_ratio draws of lines 325, 329, 332 and 335
NoiseEvents == {"trail", "grow_space", "grow_tab", "shrink"}

\* which draws come out true on which line: at most MaxNoisyLines lines have any
Noises(n) ==
    UNION {{[i \in 1..n |-> IF i \in K THEN g[i] ELSE {}] :
               g \in [K -> (SUBSET NoiseEvents) \ {{}}]} :
           K \in {K \in SUBSET (1..n) : Cardinality(K) <= MaxNoisyLines}}

\* lines 322-340 from line i on, the indentation being indent
RECURSIVE render_from(_, _, _, _)
render_from(lines, i, indent, noise) ==
    IF i > Len(lines) THEN <<>>
    ELSE LET line == indent \o to_string(lines[i])
                     \o (IF "trail" \in noise[i] THEN <<" ">> ELSE <<>>)
             grown == indent \o (IF "grow_space" \in noise[i] THEN <<" ">> ELSE <<>>)
                             \o (IF "grow_tab" \in noise[i] THEN <<"\t">> ELSE <<>>)
             next == IF "shrink" \in noise[i] /\ grown # <<>> THEN Pop1(grown) ELSE grown
         IN line \o <<"\n">> \o render_from(lines, i + 1, next, noise)

\* lines 320-340: prog_string
render(lines, noise) == render_from(lines, 1, <<>>, noise)

\* the rendering in which no draw comes out true
to_text(lines) == render(lines, [i \in 1..Len(lines) |-> {}])

\* the lines of the source texts of SpecParse
SourceLines ==
    {<<>>,
     <<"#", " ", "a", ":">>,
     <<"a", ":">>,
     <<"\t", "A", ":", "b", ":", " ", "x">>,
     <<"p", "u", "s", "h", " ", "a">>,
     <<"P", "u", "s", "h", "\t", "B", " ">>,
     <<"p", "u", "s", "h", " ", "-", "3">>,
     <<"p", "u", "s", "h", " ", "2", "1", "4", "7", "4", "8", "3", "6", "4", "8">>,
     <<"j", "m", "p">>,
     <<"d", "e", "l", " ", "1">>,
     <<"p", "u", "s", "h">>,
     <<"f", "o", "o">>}

\* the lines ls, a newline between each two
RECURSIVE join_lines(_)
join_lines(ls) ==
    IF ls = <<>> THEN <<>>
    ELSE IF Len(ls) = 1 THEN ls[1]
    ELSE ls[1] \o <<"\n">> \o join_lines(Tail(ls))

\* the texts made of these lines, with and without a newline after the last
SourceTexts ==
    UNION {{join_lines(ls), join_lines(ls) \o <<"\n">>} :
           ls \in SeqsUpTo(SourceLines, MaxTextLines)}

\* main at line 371: the text is read, nothing is parsed yet
InitParse ==
    /\ debug_assertions \in BOOLEAN
    /\ text \in SourceTexts
    /\ parses = <<>>
    /\ program = [lines |-> <<>>, labels |-> EmptyMap]
    /\ fux = program
    /\ phase = "parse"
    /\ stage = 1
    /\ rounds = 0
    /\ file = [writes |-> 0, lines |-> <<>>]
    /\ machine = DefaultMachine
    /\ start = machine
    /\ before = machine
    /\ result = "none"
    /\ given = <<>>
    /\ stdin = given
    /\ stdout = <<>>
    /\ steps = 0
    /\ invocation = 1
    /\ run1 = [phase |-> "none", result |-> "none", stdout |-> <<>>, tape |-> <<>>,
               lines |-> <<>>]

\* line 371; the assert of line 129 aborts the process
ParseProgram ==
    /\ phase = "parse"
    /\ LET parsed == parse_program(text)
       IN IF parsed.panic
          THEN phase' = "aborted" /\ UNCHANGED <<program, parses>>
          ELSE /\ program' = parsed.program
               /\ parses' = Append(parses, parsed.program)
               /\ phase' = "parsed"
    /\ UNCHANGED <<debug_assertions, invocation, given, run1, text, start>>
    /\ UNCHANGED obfVars
    /\ UNCHANGED runVars

\* lines 320-340 on the parsed lines: the rendering is the next text to parse
RenderProgram ==
    /\ phase = "parsed"
    /\ steps = 0
    /\ \E noise \in Noises(Len(program.lines)) : text' = render(program.lines, noise)
    /\ phase' = IF Len(parses) < MaxParses THEN "parse" ELSE "rendered"
    /\ UNCHANGED <<debug_assertions, program, invocation, given, run1, parses, start>>
    /\ UNCHANGED obfVars
    /\ UNCHANGED runVars

\* lines 374-376 on the program parsed from the source text
ParsedCall ==
    /\ phase = "parsed"
    /\ Len(parses) = 1
    /\ result \in {"none", "Ok"}
    /\ ~machine.terminated
    /\ steps < MaxSteps
    /\ Call
    /\ UNCHANGED <<phase, debug_assertions, program, invocation, given, run1>>
    /\ UNCHANGED obfVars
    /\ UNCHANGED srcVars

NextParse ==
    \/ ParseProgram
    \/ RenderProgram
    \/ ParsedCall

SpecParse == InitParse /\ [][NextParse]_vars

-----------------------------------------------------------------------------
(* main on the programs that use their labels as jump targets only *)

\* blocks of a source program of SpecLabel
MaxBlocks == 3

\* the blocks: a jump always directly after the push of its label
LabelBlocks ==
    {<<Null>>, <<PushConst(0)>>, <<PushConst(1)>>, <<Cmd("Print")>>, <<Cmd("Pop")>>,
     <<Label(<<"a">>)>>,
     <<PushLabel(<<"a">>), Cmd("Jmp")>>, <<PushLabel(<<"a">>), Cmd("JmpC")>>}

RECURSIVE Flatten(_)
Flatten(blocks) == IF blocks = <<>> THEN <<>> ELSE Head(blocks) \o Flatten(Tail(blocks))

\* the source programs of SpecLabel: every label pushed is declared
LabelPrograms ==
    {lines \in {Flatten(blocks) : blocks \in SeqsUpTo(LabelBlocks, MaxBlocks)} :
        \A i \in 1..Len(lines) :
            lines[i].op = "PushLabel" => \E j \in 1..Len(lines) : lines[j] = Label(lines[i].l)}

InitLabel == InitWith(LabelPrograms)

-----------------------------------------------------------------------------
(* the driver loop of lines 373-376 on any program, the empty one included *)

\* the commands of the programs of SpecDriver
DriverCommands ==
    {Null, PushConst(-1), PushConst(0), PushConst(5), PushLabel(<<"a">>), PushLabel(<<"b">>),
     Label(<<"a">>), Cmd("Jmp"), Cmd("JmpC"), Cmd("Left"), Cmd("PushT"), Cmd("Del"),
     Cmd("Div"), Cmd("Read")}

\* main at line 373: the machine is fresh, the loop has the program parsed
InitDriver ==
    /\ debug_assertions \in BOOLEAN
    /\ \E lines \in SeqsUpTo(DriverCommands, MaxProgLen) :
          program = [lines |-> lines, labels |-> scan_labels(lines, 0, EmptyMap)]
    /\ fux = program
    /\ phase = "exec"
    /\ stage = LastStage
    /\ rounds = 0
    /\ file = [writes |-> 0, lines |-> <<>>]
    /\ machine = DefaultMachine
    /\ start = machine
    /\ before = machine
    /\ result = "none"
    /\ given \in {<<>>, <<65>>}
    /\ stdin = given
    /\ stdout = <<>>
    /\ steps = 0
    /\ invocation = 1
    /\ run1 = [phase |-> "none", result |-> "none", stdout |-> <<>>, tape |-> <<>>,
               lines |-> <<>>]
    /\ text = <<>>
    /\ parses = <<>>

NextDriver ==
    \/ DriverStep
    \/ Exit

SpecDriver == InitDriver /\ [][NextDriver]_vars

-----------------------------------------------------------------------------
(* execute_command on its own: any program line, any MachineState *)

\* the commands of the programs of SpecStep: every variant of Command
StepCommands ==
    {Cmd(op) : op \in {"Left", "Right", "PushT", "Pop", "Dup", "Del", "Not", "Read",
                       "Print", "Jmp", "JmpC", "Null"} \cup BinaryOps}
    \cup {PushConst(5), PushLabel(<<"a">>), PushLabel(<<"b">>), Label(<<"a">>)}

\* the Data values of the stacks of SpecStep
StepData == {-7, 0, 2, 7, MaxI32}

\* longest stack and longest tape of an initial state of SpecStep
MaxStack == 2
MaxTape == 1
\* highest tape head and program counter of an initial state of SpecStep
MaxHead == 1
MaxCounter == 2

StepMachines ==
    [program_counter : 0..MaxCounter, tape_head : 0..MaxHead,
     tape : SeqsUpTo({0, 5}, MaxTape), stack : SeqsUpTo(StepData, MaxStack),
     terminated : BOOLEAN]

\* a caller holds a program of one or two lines and any MachineState
InitStep ==
    /\ debug_assertions \in BOOLEAN
    /\ \E c \in StepCommands : \E lines \in {<<c>>, <<c, Cmd("PushT")>>} :
          program = [lines |-> lines, labels |-> scan_labels(lines, 0, EmptyMap)]
    /\ fux = program
    /\ phase = "step"
    /\ stage = 1
    /\ rounds = 0
    /\ file = [writes |-> 0, lines |-> <<>>]
    /\ machine \in StepMachines
    /\ before = machine
    /\ result = "none"
    /\ given \in {<<>>, <<65>>}
    /\ stdin = given
    /\ stdout = <<>>
    /\ steps = 0
    /\ invocation = 1
    /\ run1 = [phase |-> "none", result |-> "none", stdout |-> <<>>, tape |-> <<>>,
               lines |-> <<>>]
    /\ text = <<>>
    /\ parses = <<>>
    /\ start = machine

\* the caller calls execute_command, and again on the state an Ok returned
StepCall ==
    /\ phase = "step"
    /\ result \in {"none", "Ok"}
    /\ steps < MaxSteps
    /\ Call
    /\ UNCHANGED <<phase, debug_assertions, program, invocation, given, run1>>
    /\ UNCHANGED obfVars
    /\ UNCHANGED srcVars

NextStep == StepCall

-----------------------------------------------------------------------------
(* the sequences insert_dead_code inserts, executed from any MachineState *)

\* the extremes of a range
Extremes(range) == Least(range) \cup Greatest(range)

\* the lines of `a:` after insert_dead_code has inserted one sequence of family
\* n before the Label, the constants drawn from the whole of their ranges
OneInserted(n) ==
    {Splice(<<Label(<<"a">>)>>, 0, d) :
        d \in dead_code_gen(n, gen_range(-3, 10), gen_range(3, 10))}

\* the same after a later call (family k >= n, or the seventh call's Null) has
\* inserted a sequence inside the first, all constants at the ends of their ranges
TwoInserted(n) ==
    UNION {{Splice(Splice(<<Label(<<"a">>)>>, 0, d), index, e) :
               index \in gen_range(1, Len(d)),
               e \in UNION {dead_code_gen(k, Least(gen_range(-3, 10)), Least(gen_range(3, 10))) :
                               k \in n..LastStage}} :
           d \in dead_code_gen(n, Extremes(gen_range(-3, 10)), Extremes(gen_range(3, 10)))}

\* the MachineStates the inserted sequence is entered from
DeadMachines ==
    [program_counter : {0}, tape_head : 0..MaxHead, tape : {<<>>, <<5>>},
     stack : {<<>>, <<MaxI32, MinI32>>}, terminated : BOOLEAN]

\* execute_command is about to run the first line of an inserted sequence
InitDead ==
    /\ debug_assertions \in BOOLEAN
    /\ \E n \in 1..(LastStage - 1) : \E lines \in OneInserted(n) \cup TwoInserted(n) :
          program = [lines |-> lines, labels |-> scan_labels(lines, 0, EmptyMap)]
    /\ fux = program
    /\ phase = "step"
    /\ stage = 1
    /\ rounds = 0
    /\ file = [writes |-> 0, lines |-> <<>>]
    /\ machine \in DeadMachines
    /\ start = machine
    /\ before = machine
    /\ result = "none"
    /\ given = <<>>
    /\ stdin = given
    /\ stdout = <<>>
    /\ steps = 0
    /\ invocation = 1
    /\ run1 = [phase |-> "none", result |-> "none", stdout |-> <<>>, tape |-> <<>>,
               lines |-> <<>>]
    /\ text = <<>>
    /\ parses = <<>>

SpecDead == InitDead /\ [][NextStep]_vars

SpecStep == InitStep /\ [][NextStep]_vars

Next ==
    \/ Retain
    \/ PadRound
    \/ InsertDeadCode
    \/ ReturnDeadCode
    \/ UpdateLabels
    \/ SubstituteLabels
    \/ WriteFile
    \/ DriverStep
    \/ Exit
    \/ RunObfuscated

Spec == Init /\ [][Next]_vars

SpecJump == InitJump /\ [][Next]_vars

SpecLabel == InitLabel /\ [][Next]_vars

-----------------------------------------------------------------------------
(* What the latest call did, read from the history variables *)

\* the latest call got past lines 161-172 and ran a command
Executed == result # "none" /\ Entry(program, before) = "fetch"
ExecutedOp == program.lines[before.program_counter + 1].op
\* the bytes standard input held when the latest call was made
InputBefore ==
    IF Executed /\ result = "Ok" /\ ExecutedOp = "Read"
    THEN <<Top(machine.stack)>> \o stdin
    ELSE stdin
ProgramLength == Len(program.lines)
Abs(x) == IF x < 0 THEN -x ELSE x
Max(x, y) == IF x >= y THEN x ELSE y

-----------------------------------------------------------------------------
(* C1 *)

\* C1: for a source program without PushLabel, the run of the program that
\* generate_fuxxor wrote, on the same input, prints the same output and leaves
\* the same tape as the run of the source program (stated of the runs that
\* both terminate).
C1_ObfuscatedRunEqualsSourceRun ==
    (/\ invocation = 2
     /\ phase = "done"
     /\ run1.phase = "done"
     /\ \A i \in 1..Len(run1.lines) : run1.lines[i].op # "PushLabel")
    => (stdout = run1.stdout /\ machine.tape = run1.tape)

-----------------------------------------------------------------------------
(* C2 *)

NonCommutative == {"Sub", "Div", "Mod", "Gt", "Lt"}

\* a non-commutative operation ran on a stack of at least two values
NonCommutativeRan ==
    Executed /\ ExecutedOp \in NonCommutative /\ Len(before.stack) >= 2

IsTruncQuotient(x, n, d) ==
    LET rem == n - x * d
    IN Abs(rem) < Abs(d) /\ (rem = 0 \/ ((rem > 0) <=> (n > 0)))

\* x is the remainder of n by d, with the sign of n
IsTruncRemainder(x, n, d) ==
    /\ Abs(x) < Abs(d)
    /\ (x = 0 \/ ((x > 0) <=> (n > 0)))
    /\ (n - x) % Abs(d) = 0

-----------------------------------------------------------------------------
(* C3 *)

\* the driver loop has made its third call on the program of these lines
ThirdStepOf(lines) == program.lines = lines /\ steps = 3

\* C3 as stated: `push 2; push 1; jmpc` sets the program counter to 2, and with
\* 0 in place of the 1 the jump is not taken.
C3_JumpsToTwo ==
    /\ ThirdStepOf(<<PushConst(2), PushConst(1), Cmd("JmpC")>>) =>
          (result = "Ok" /\ machine.program_counter = 2)
    /\ ThirdStepOf(<<PushConst(2), PushConst(0), Cmd("JmpC")>>) =>
          (result = "Ok" /\ machine.program_counter = 3)

\* C3, amended: `push 2; push 1; jmpc` sets the program counter to 1: the top
\* of the stack, 1, is the target and the 2 below it the nonzero condition;
\* with 0 as the condition (`push 0; push 1; jmpc`) the jump is not taken and
\* the program counter is 3, the address after the jmpc.
C3_JumpsToOne ==
    /\ ThirdStepOf(<<PushConst(2), PushConst(1), Cmd("JmpC")>>) =>
          (result = "Ok" /\ machine.program_counter = 1 /\ machine.stack = <<>>)
    /\ ThirdStepOf(<<PushConst(0), PushConst(1), Cmd("JmpC")>>) =>
          (result = "Ok" /\ machine.program_counter = 3 /\ machine.stack = <<>>)

\* the jmpc of `push 2; push 1; jmpc` has run
C3_Witness ==
    /\ ThirdStepOf(<<PushConst(2), PushConst(1), Cmd("JmpC")>>)
    /\ before.stack = <<2, 1>> /\ before.program_counter = 2
    /\ machine.program_counter = 1

-----------------------------------------------------------------------------
(* C4 *)

\* C4: after a call that returned Ok, terminated is set exactly when the
\* program counter is outside the lines.
C4_TerminatedIffCounterPastEnd ==
    result = "Ok" =>
        (machine.terminated <=> ~usize_lt(machine.program_counter, ProgramLength))

\* a call on a state that was not terminated moved the counter to the end
C4_Witness ==
    /\ result = "Ok" /\ ~before.terminated
    /\ machine.program_counter = ProgramLength /\ machine.terminated

-----------------------------------------------------------------------------
(* C5 *)

\* the usize u exceeds the length n
usize_gt(u, n) == u < 0 \/ u > n

\* C5: in a run of the driver loop the program counter at the length means
\* terminated, and the program counter is never above the length.
C5_CounterNeverAboveLength ==
    phase \in {"exec", "done", "crashed"} =>
        /\ machine.program_counter = ProgramLength => machine.terminated
        /\ ~usize_gt(machine.program_counter, ProgramLength)

-----------------------------------------------------------------------------
(* C6 *)

\* C6: a call on a terminated state returns Terminated exactly when the counter
\* is outside the lines; inside, it returns what the call on the same state
\* with the flag cleared returns.
C6_ResumeWhenInBounds ==
    (result # "none" /\ before.terminated) =>
        /\ result = "Terminated" <=> ~usize_lt(before.program_counter, ProgramLength)
        /\ usize_lt(before.program_counter, ProgramLength) =>
              LET r == execute_command(program, [before EXCEPT !.terminated = FALSE],
                                       InputBefore, debug_assertions)
              IN result = r.res /\ (result = "Ok" => machine = r.machine)

\* a terminated state with the counter inside was resumed and stays running
C6_Witness ==
    /\ result = "Ok" /\ before.terminated
    /\ usize_lt(before.program_counter, ProgramLength)
    /\ ~machine.terminated
    /\ machine # before

-----------------------------------------------------------------------------
(* C7 *)

\* the latest call ran a Jmp, or a JmpC on a nonzero condition, whose popped
\* address is outside the lines
JumpedOutside ==
    /\ Executed /\ result = "Ok"
    /\ \/ ExecutedOp = "Jmp"
       \/ ExecutedOp = "JmpC" /\ Second(before.stack) # 0
    /\ ~usize_lt(as_usize(Top(before.stack)), ProgramLength)

\* C7: a jump to an address outside the lines is an InvalidLine fault; the run
\* does not end as a normal termination after it.
C7_JumpOutsideFaults == ~(phase = "done" /\ JumpedOutside)

-----------------------------------------------------------------------------
(* C8 *)

NeedsOne == {"Pop", "Dup", "Del", "Not", "Print", "Jmp"}
NeedsTwo == {"Eq", "Gt", "Lt", "Add", "Sub", "Mult", "Div", "Mod", "JmpC"}

\* the latest call ran a command on a stack shorter than the command needs
RanShort ==
    /\ Executed
    /\ \/ ExecutedOp \in NeedsOne /\ Len(before.stack) < 1
       \/ ExecutedOp \in NeedsTwo /\ Len(before.stack) < 2

\* C8: a command that needs N values, run on a stack of fewer, returns
\* StackUnderflow and nothing else, whatever the tape, the head and the
\* values on the stack.
C8_ShortStackUnderflows == RanShort => (result = "StackUnderflow" /\ machine = before)

\* div ran on a stack holding a single 0
C8_Witness ==
    /\ Executed /\ ExecutedOp = "Div" /\ before.stack = <<0>>
    /\ result = "StackUnderflow"

-----------------------------------------------------------------------------
(* C9 *)

\* C9: Pop on a non-empty stack grows the tape to max(length, head + 1) with
\* zeros, stores the top of the stack in the cell at the head, changes no
\* other cell nor the head, takes one value off the stack; a PushT run next
\* at that head pushes the stored value.
C9_PopStoresAtHead ==
    (Executed /\ ExecutedOp = "Pop" /\ before.stack # <<>>) =>
        LET h == before.tape_head
            old == Len(before.tape)
            next == execute_command([lines |-> <<Cmd("PushT")>>, labels |-> EmptyMap],
                                    [machine EXCEPT !.program_counter = 0,
                                                    !.terminated = FALSE],
                                    stdin, debug_assertions)
        IN /\ result = "Ok"
           /\ Len(machine.tape) = Max(old, h + 1)
           /\ \A i \in 0..(Len(machine.tape) - 1) :
                 machine.tape[i + 1] = IF i = h THEN Top(before.stack)
                                       ELSE IF i < old THEN before.tape[i + 1]
                                       ELSE 0
           /\ machine.tape_head = h
           /\ machine.stack = Pop1(before.stack)
           /\ next.res = "Ok"
           /\ next.machine.stack = Append(machine.stack, Top(before.stack))
           /\ next.machine.tape = machine.tape

\* pop ran with the head beyond the end of the tape
C9_Witness ==
    /\ Executed /\ ExecutedOp = "Pop" /\ result = "Ok"
    /\ before.tape = <<>> /\ before.tape_head = 1 /\ before.stack = <<2, 7>>
    /\ machine.tape = <<0, 7>> /\ machine.stack = <<2>>

-----------------------------------------------------------------------------
(* C10 *)

\* C10: Left at head 0 returns TapeHeadUnderflow; Left at h > 0 makes the head
\* h - 1 and Right makes it h + 1; neither changes the tape or the stack; the
\* head is never negative.
C10_HeadMoves ==
    /\ machine.tape_head >= 0
    /\ (Executed /\ ExecutedOp = "Left") =>
          IF before.tape_head = 0
          THEN result = "TapeHeadUnderflow" /\ machine = before
          ELSE /\ result = "Ok"
               /\ machine.tape_head = before.tape_head - 1
               /\ machine.tape = before.tape /\ machine.stack = before.stack
    /\ (Executed /\ ExecutedOp = "Right") =>
          /\ result = "Ok"
          /\ machine.tape_head = before.tape_head + 1
          /\ machine.tape = before.tape /\ machine.stack = before.stack

\* left ran at head 0
C10_Witness ==
    /\ Executed /\ ExecutedOp = "Left" /\ before.tape_head = 0
    /\ result = "TapeHeadUnderflow"

-----------------------------------------------------------------------------
(* C11 *)

\* the program parsed from the source text is held and nothing was rendered yet
SourceParsed == phase = "parsed" /\ Len(parses) = 1

\* the addresses at which the lines declare the label name
DeclaredAt(lines, name) == {i \in 0..(Len(lines) - 1) : lines[i + 1] = Label(name)}

\* C11: after parse every line of the text has made one instruction at its
\* index, an empty or comment line a Null and a line whose first word ends in a
\* colon a Label; the table maps each declared name to the index of its last
\* Label and has no other name; PushLabel(name) pushes that index wherever it
\* stands, and returns InvalidLabel for a name not declared.
C11_LabelsAtLineIndex ==
    SourceParsed =>
        LET src == str_lines(text)
            low(i) == to_lowercase(trim(src[i]))
            blank(i) == low(i) = <<>> \/ is_comment(low(i))
        IN /\ Len(program.lines) = Len(src)
           /\ \A i \in 1..Len(src) :
                 /\ blank(i) => program.lines[i] = Null
                 /\ program.lines[i].op = "Label" <=>
                       (~blank(i) /\ ends_with(split_whitespace(low(i))[1], ":"))
           /\ \A i \in 1..Len(src) :
                 program.lines[i].op = "Label" => program.lines[i].l \in DOMAIN program.labels
           /\ \A name \in DOMAIN program.labels :
                 /\ DeclaredAt(program.lines, name) # {}
                 /\ program.labels[name] \in Greatest(DeclaredAt(program.lines, name))
           /\ (Executed /\ ExecutedOp = "PushLabel") =>
                 LET name == program.lines[before.program_counter + 1].l
                 IN IF DeclaredAt(program.lines, name) = {}
                    THEN result = "InvalidLabel"
                    ELSE /\ result = "Ok"
                         /\ Pop1(machine.stack) = before.stack
                         /\ Top(machine.stack) \in Greatest(DeclaredAt(program.lines, name))

\* `push a`, an empty line, `a:`: the push at address 0 has pushed 2
C11_Witness ==
    /\ SourceParsed
    /\ program.lines = <<PushLabel(<<"a">>), Null, Label(<<"a">>)>>
    /\ Executed /\ before.program_counter = 0 /\ result = "Ok"
    /\ machine.stack = <<2>>

-----------------------------------------------------------------------------
(* C15 *)

\* C15: the text rendered from a parsed program always parses, and to the
\* program it was rendered from: the same lines and the same label table, so
\* the rendering of the second parse is the rendering of the first.
C15_ParseOfRenderingIsSame ==
    /\ phase = "aborted" => parses = <<>>
    /\ \A k \in 2..Len(parses) :
          /\ parses[k].lines = parses[1].lines
          /\ DOMAIN parses[k].labels = DOMAIN parses[1].labels
          /\ \A name \in DOMAIN parses[1].labels :
                parses[k].labels[name] = parses[1].labels[name]
          /\ to_text(parses[k].lines) = to_text(parses[1].lines)

\* a text with a label, a comment, a push of a constant and a push of a label
\* was parsed, rendered with an indented line and parsed again
C15_Witness ==
    /\ Len(parses) = 2
    /\ \E i \in 1..Len(program.lines) : program.lines[i].op = "Label"
    /\ \E i \in 1..Len(program.lines) : program.lines[i].op = "PushLabel"
    /\ \E i \in 1..Len(program.lines) : program.lines[i].op = "Null"
    /\ text # to_text(program.lines)

-----------------------------------------------------------------------------
(* C12 *)

\* C12: the lines written hold no PushLabel and no Label.  The substitution
\* step turns each PushLabel(name) into the PushConst of the address, in the
\* sequence as it is after every insertion, of the last Label(name), and
\* changes no other line; the erasing step turns each Label into a Null where
\* it stands and changes no other line, so no address moves.
C12_LabelsResolvedInPlace ==
    /\ [](file.writes > 0 =>
             \A i \in 1..Len(file.lines) : file.lines[i].op \notin {"PushLabel", "Label"})
    /\ [][/\ (phase = "substitute" /\ phase' = "write") =>
                /\ Len(fux'.lines) = Len(fux.lines)
                /\ \A i \in 1..Len(fux.lines) :
                      IF fux.lines[i].op = "PushLabel"
                      THEN /\ fux'.lines[i].op = "Push"
                           /\ fux'.lines[i].c \in Greatest(DeclaredAt(fux.lines, fux.lines[i].l))
                      ELSE fux'.lines[i] = fux.lines[i]
          /\ (phase = "write" /\ phase' = "exec") =>
                /\ Len(file'.lines) = Len(fux.lines)
                /\ \A i \in 1..Len(fux.lines) :
                      file'.lines[i] = IF fux.lines[i].op = "Label" THEN Null ELSE fux.lines[i]]_vars

\* a program whose label is declared twice was written out: its PushLabel is
\* now the PushConst of an address past the source's length, where the second
\* Label stood and a Null stands now
C12_Witness ==
    /\ invocation = 1 /\ file.writes = 1
    /\ program.lines = <<Label(<<"a">>), PushLabel(<<"a">>), Label(<<"a">>)>>
    /\ \E j \in 1..Len(file.lines) :
          /\ file.lines[j].op = "Push"
          /\ file.lines[j].c >= Len(program.lines)
          /\ file.lines[file.lines[j].c + 1] = Null

-----------------------------------------------------------------------------
(* C13 *)

\* the positions of generate_fuxxor and those of the driver loop
ObfuscationPhases == {"retain", "pad", "dead", "labels", "substitute", "write"}
ExecutionPhases == {"exec", "done", "crashed"}

\* C13: in a run of main no execute_command call is made while generate_fuxxor
\* runs; once the driver loop is entered, and whether it ends normally or is
\* aborted by a fault, the file has been written exactly once, and no step of
\* the driver loop writes it again; the program the loop executes is the one
\* parsed, which generate_fuxxor never changes.
C13_ObfuscateThenExecute ==
    /\ []((invocation = 1 /\ phase \in ObfuscationPhases \cup {"aborted"}) =>
             (steps = 0 /\ result = "none" /\ file.writes = 0))
    /\ []((invocation = 1 /\ phase \in ExecutionPhases) => file.writes = 1)
    /\ [][invocation' = 1 =>
             /\ program' = program
             /\ phase \in ExecutionPhases => (file' = file /\ phase' \in ExecutionPhases)
             /\ steps' # steps => (phase = "exec" /\ file.writes = 1)]_vars

\* the driver loop was aborted by a fault after the file was written
C13_Witness ==
    /\ invocation = 1 /\ phase = "crashed" /\ result = "StackUnderflow"
    /\ file.writes = 1 /\ steps > 0
    /\ Len(file.lines) > Len(program.lines)

-----------------------------------------------------------------------------
(* C14 *)

\* some PushLabel of the lines names a label that no line declares
UndeclaredReference(lines) ==
    \E i \in 1..Len(lines) :
        lines[i].op = "PushLabel" /\ DeclaredAt(lines, lines[i].l) = {}

\* C14: generate_fuxxor is aborted only on a program in which some PushLabel
\* names an undeclared label; on every other program, one without any line
\* that is not a Null included, it runs to the write of the file.
C14_AbortsOnlyOnUndeclaredLabel ==
    (invocation = 1 /\ phase = "aborted") => UndeclaredReference(program.lines)

-----------------------------------------------------------------------------
(* C16 *)

\* the inserted lines of a program of SpecDead: all but the Label at its end
InsertedLength == ProgramLength - 1

\* C16: each inserted sequence, entered at its first line from any state, runs
\* through without a fault and without an overflow in either build; while it
\* runs the stack keeps the values it held below what the sequence pushed and
\* the tape and the head stay; at its end the stack is as it was and the
\* program counter has advanced by the length of the sequence, another
\* sequence inserted inside it or not.
C16_DeadCodeIsNeutral ==
    (steps <= InsertedLength) =>
        /\ result \in {"none", "Ok"}
        /\ machine.program_counter = steps
        /\ machine.tape = start.tape
        /\ machine.tape_head = start.tape_head
        /\ Len(machine.stack) >= Len(start.stack)
        /\ SubSeq(machine.stack, 1, Len(start.stack)) = start.stack
        /\ steps > 0 => ~machine.terminated
        /\ steps = InsertedLength => machine.stack = start.stack
        /\ (Executed /\ ExecutedOp \in {"Add", "Sub", "Mult"}) =>
              ~arith(ExecutedOp, Top(before.stack), Second(before.stack), TRUE).panic

\* a sequence of the fifth family with one of the sixth inside it has run to
\* its end from a stack of two values, in a debug build
C16_Witness ==
    /\ steps = InsertedLength /\ InsertedLength > 6
    /\ program.lines[1] = PushConst(9)
    /\ \E i \in 1..ProgramLength : program.lines[i].op = "Div"
    /\ \E i \in 1..ProgramLength : program.lines[i].op = "Dup"
    /\ debug_assertions
    /\ result = "Ok" /\ start.stack = <<MaxI32, MinI32>> /\ machine.stack = start.stack

-----------------------------------------------------------------------------
(* C17 *)

\* C17: after a call that returned Ok from program counter i, the counter is
\* i + 1 unless the command is a Jmp or a JmpC; a Null or a Label changes
\* nothing else but the terminated flag; Jmp sets the counter to the value it
\* pops; JmpC pops the target first and the condition second, both in either
\* case, and sets the counter to the target on a nonzero condition and to
\* i + 1 on a zero one.
C17_CounterAfterStep ==
    (Executed /\ result = "Ok") =>
        LET i == before.program_counter
        IN /\ ExecutedOp \notin {"Jmp", "JmpC"} => machine.program_counter = i + 1
           /\ ExecutedOp \in {"Null", "Label"} =>
                 /\ machine.stack = before.stack
                 /\ machine.tape = before.tape
                 /\ machine.tape_head = before.tape_head
           /\ ExecutedOp = "Jmp" =>
                 /\ machine.program_counter = as_usize(Top(before.stack))
                 /\ machine.stack = Pop1(before.stack)
           /\ ExecutedOp = "JmpC" =>
                 /\ machine.stack = Pop2(before.stack)
                 /\ machine.program_counter =
                       IF Second(before.stack) # 0 THEN as_usize(Top(before.stack)) ELSE i + 1

\* a jmpc at address 0 of two lines popped the target 7 and the condition 0
\* and fell through to address 1
C17_Witness ==
    /\ Executed /\ ExecutedOp = "JmpC" /\ result = "Ok"
    /\ before.stack = <<0, 7>> /\ before.program_counter = 0
    /\ machine.program_counter = 1 /\ machine.stack = <<>> /\ ~machine.terminated

-----------------------------------------------------------------------------
(* C20 *)

\* C20: PushT with the head at or past the length of the tape pushes nothing
\* and returns no ExecutionError: the call aborts the process; with the head
\* below the length it pushes the cell at the head and leaves the tape and the
\* head as they were.
C20_PushTPastEndAborts ==
    (Executed /\ ExecutedOp = "PushT") =>
        IF before.tape_head >= Len(before.tape)
        THEN result = "Panic" /\ machine = before
        ELSE /\ result = "Ok"
             /\ machine.stack = Append(before.stack, before.tape[before.tape_head + 1])
             /\ machine.tape = before.tape
             /\ machine.tape_head = before.tape_head

\* pusht was the first command run on a fresh tape
C20_Witness ==
    /\ Executed /\ ExecutedOp = "PushT" /\ steps = 1
    /\ before.tape = <<>> /\ before.tape_head = 0 /\ before.program_counter = 0
    /\ result = "Panic"

-----------------------------------------------------------------------------
(* C19 *)

\* C19: in a run of the driver loop from a fresh machine no call returns
\* Terminated; a call returns InvalidLine only as the first call on a program
\* without lines; a run that has ended has terminated set, or was aborted by
\* StackUnderflow, TapeHeadUnderflow, InvalidLabel or a panic, or by that
\* InvalidLine.
C19_DriverLoopOutcomes ==
    /\ result # "Terminated"
    /\ result = "InvalidLine" => (steps = 1 /\ ProgramLength = 0)
    /\ phase = "done" => (machine.terminated /\ result = "Ok")
    /\ phase = "crashed" =>
          \/ result \in {"StackUnderflow", "TapeHeadUnderflow", "InvalidLabel", "Panic"}
          \/ result = "InvalidLine" /\ steps = 1 /\ ProgramLength = 0
    /\ (phase = "exec" /\ ~machine.terminated) =>
          usize_lt(machine.program_counter, ProgramLength) \/ steps = 0

\* the first call of the loop on the program without lines returned InvalidLine
C19_Witness ==
    /\ phase = "crashed" /\ result = "InvalidLine"
    /\ steps = 1 /\ ProgramLength = 0 /\ machine = DefaultMachine

-----------------------------------------------------------------------------
(* C18 *)

\* every Jmp and JmpC of the lines stands directly after a PushLabel, and a
\* PushLabel stands nowhere else
LabelsOnlyBeforeJumps(lines) ==
    \A i \in 1..Len(lines) :
        /\ lines[i].op \in {"Jmp", "JmpC"} => (i > 1 /\ lines[i - 1].op = "PushLabel")
        /\ lines[i].op = "PushLabel" => (i < Len(lines) /\ lines[i + 1].op \in {"Jmp", "JmpC"})

\* C18: for a source program with a line that is not a Null, with every label
\* it pushes declared and with its labels used as jump targets only, the run
\* of the written program on the same input ends as the run of the source
\* program ended: normally or by the same fault, with the same output and the
\* same tape, wherever the lines were inserted.
C18_LabelledProgramEquivalent ==
    (/\ invocation = 2
     /\ phase \in {"done", "crashed"}
     /\ LabelsOnlyBeforeJumps(run1.lines)
     /\ ~UndeclaredReference(run1.lines)
     /\ \E i \in 1..Len(run1.lines) : run1.lines[i] # Null)
    => /\ phase = run1.phase
       /\ result = run1.result
       /\ stdout = run1.stdout
       /\ machine.tape = run1.tape

\* `push a; jmp; print; a:` jumped over its print and ended; so did the
\* written program, whose label stands at a later address than in the source
C18_Witness ==
    /\ invocation = 2 /\ phase = "done" /\ run1.phase = "done"
    /\ run1.lines = <<PushLabel(<<"a">>), Cmd("Jmp"), Cmd("Print"), Label(<<"a">>)>>
    /\ \E i \in 1..ProgramLength : program.lines[i].op = "Push" /\ program.lines[i].c > 3
    /\ \E i \in 1..ProgramLength : program.lines[i].op = "Del"
    /\ stdout = <<>>

====
